---- MODULE Spec2Model ----
(***************************************************************************)
(* A model of mask_identities.py: the mask-label assignment of             *)
(* masked_mentions and the offset-ordered stitching of mask.               *)
(*                                                                         *)
(* Python strings are TLA+ strings (\o, Len and SubSeq act on them), a     *)
(* Python dict is a function whose DOMAIN is the set of keys it holds, a   *)
(* Python list is a sequence.  The list `masked` holds the mention dicts   *)
(* of the ADM themselves (not copies): it is modelled as a sequence of     *)
(* references <<i, j>> (entity i, mention j) into the ADM.                 *)
(***************************************************************************)
EXTENDS Integers, Sequences, FiniteSets, TLC

VARIABLES
    adm,      \* the Annotated Data Model the caller holds (mutated in place)
    adm0,     \* history: the ADM as entities() returned it, before any call
    masks,    \* the `masks` argument of the last call
    op,       \* "none" | "mask" | "masked_mentions": the last function called
    pc,       \* "start" | "returned" | "raised": how the last call ended
    error,    \* "none" | "KeyError" | "IndexError": the exception raised
    masked,   \* the mentions yielded (masked_mentions) or sorted (mask)
    result    \* the string mask returned ("" when it returned none)

vars == <<adm, adm0, masks, op, pc, error, masked, result>>

-----------------------------------------------------------------------------
(* Bounds of the inputs *)

MaxDocLen == 3
MaxEntities == 2
MaxMentions == 2

Alphabet == "abcdefghijklmnopqrstuvwxyz"

-----------------------------------------------------------------------------
(* Python built-ins used by the code *)

Min2(a, b) == IF a <= b THEN a ELSE b
Max2(a, b) == IF a >= b THEN a ELSE b

\* dict.get(key, default)
Get(obj, key, default) == IF key \in DOMAIN obj THEN obj[key] ELSE default

\* A slice bound i of a sequence of length n, as Python normalises it:
\* a negative bound counts from the end, and every bound is clamped.
SliceIndex(i, n) == IF i < 0 THEN Max2(i + n, 0) ELSE Min2(i, n)

\* s[lo:hi]
SliceSwapping(s, lo, hi) ==
    LET l == SliceIndex(lo, Len(s))
        h == SliceIndex(hi, Len(s))
    IN  IF l < h THEN SubSeq(s, l + 1, h) ELSE SubSeq(s, h + 1, l)

Slice(s, lo, hi) ==
    LET l == SliceIndex(lo, Len(s))
        h == SliceIndex(hi, Len(s))
    IN  IF l < h THEN SubSeq(s, l + 1, h) ELSE ""

\* s[:hi] and s[lo:]
SliceTo(s, hi) == Slice(s, 0, hi)
SliceFrom(s, lo) == Slice(s, lo, Len(s))

\* Lexicographic order of the (start, end) tuples that extent returns
TupleLess(a, b) == a[1] < b[1] \/ (a[1] = b[1] /\ a[2] < b[2])

\* str.format(*args) on a template whose only braces are "{}" fields:
\* the k-th "{}" takes args[k] (automatic numbering) and raises IndexError
\* when there is no such argument; surplus arguments are ignored.
RECURSIVE FormatFrom(_, _, _, _, _)
FormatFrom(template, pos, k, args, acc) ==
    IF pos > Len(template) THEN [raised |-> FALSE, value |-> acc]
    ELSE IF pos < Len(template) /\ SubSeq(template, pos, pos + 1) = "{}"
    THEN IF k > Len(args) THEN [raised |-> TRUE, value |-> ""]
         ELSE FormatFrom(template, pos + 2, k + 1, args,
                         acc \o ToString(args[k]))
    ELSE FormatFrom(template, pos + 1, k, args,
                    acc \o SubSeq(template, pos, pos))

Format(template, args) == FormatFrom(template, 1, 1, args, "")

-----------------------------------------------------------------------------
(* Module-level tables *)

MASKS ==
    ("ORGANIZATION" :> "ORGANIZATION{}") @@
    ("PERSON" :> "PERSON{}") @@
    ("LOCATION" :> "LOCATION{}") @@
    ("PRODUCT" :> "PRODUCT{}") @@
    ("TITLE" :> "TITLE{}") @@
    ("NATIONALITY" :> "NATIONALITY{}") @@
    ("RELIGION" :> "RELIGION{}") @@
    ("IDENTIFIER:CREDIT_CARD_NUM" :> "IDENTIFIER:CREDIT_CARD_NUM") @@
    ("IDENTIFIER:EMAIL" :> "IDENTIFIER:EMAIL") @@
    ("IDENTIFIER:MONEY" :> "IDENTIFIER:MONEY") @@
    ("IDENTIFIER:PERSONAL_ID_NUM" :> "IDENTIFIER:PERSONAL_ID_NUM") @@
    ("IDENTIFIER:PHONE_NUMBER" :> "IDENTIFIER:PHONE_NUMBER") @@
    ("TEMPORAL:DATE" :> "TEMPORAL:DATE") @@
    ("TEMPORAL:TIME" :> "TEMPORAL:TIME") @@
    ("IDENTIFIER:LATITUDE_LONGITUDE" :> "IDENTIFIER:LATITUDE_LONGITUDE") @@
    ("IDENTIFIER:URL" :> "IDENTIFIER:URL") @@
    ("IDENTIFIER:DISTANCE" :> "IDENTIFIER:DISTANCE")

-----------------------------------------------------------------------------
(* ngrams, extent *)

\* zip(*(iterable[i:] for i in range(n))): the windows of n consecutive items
ngrams(iterable, n) ==
    [i \in 1..Max2(Len(iterable) - n + 1, 0) |-> SubSeq(iterable, i, i + n - 1)]

extent(obj) == <<Get(obj, "startOffset", -1), Get(obj, "endOffset", -1)>>

-----------------------------------------------------------------------------
(* The ADM *)

Items(a) == a.attributes.entities.items

\* The mention dict a reference <<i, j>> stands for
Deref(a, r) == Items(a)[r[1]].mentions[r[2]]

\* mention['mask'] = label, on the mention dict of the ADM itself
SetMaskOnly(a, i, j, label) ==
    [a EXCEPT !.attributes.entities.items[i].mentions[j] = ("mask" :> label)]

SetMaskKeep(a, i, j, label) ==
    [a EXCEPT !.attributes.entities.items[i].mentions[j] =
                  @ @@ ("mask" :> label)]

SetMask(a, i, j, label) ==
    [a EXCEPT !.attributes.entities.items[i].mentions[j] =
                  ("mask" :> label) @@ @]

-----------------------------------------------------------------------------
(* masked_mentions(adm, masks), consumed to its end or to the exception *)

\* index = {k: 0 for k in MASKS}
NewIndex == [k \in DOMAIN MASKS |-> 0]

\* index[entity['type']] += 1
IncShared(index, type) == [k \in DOMAIN index |-> index[k] + 1]

IncIndex(index, type) == [index EXCEPT ![type] = @ + 1]

\* masks[entity['type']].format(index[entity['type']])
LabelFirstField(template, n) == Format(template, <<n, n>>)

Label(template, n) == Format(template, <<n>>)

\* The two loops from entity i, mention j on (j = 0: at the head of the
\* entity's iteration, before its `if`).  `out` lists the mentions yielded.
RECURSIVE GenFrom(_, _, _, _, _, _)
GenFrom(a, cfg, index, i, j, out) ==
    IF i > Len(Items(a))
    THEN [adm |-> a, yielded |-> out, error |-> "none"]
    ELSE LET entity == Items(a)[i]
             type == entity.type
         IN  IF type \notin DOMAIN cfg
             THEN GenFrom(a, cfg, index, i + 1, 0, out)
             ELSE IF j = 0
             THEN IF type \notin DOMAIN index
                  THEN [adm |-> a, yielded |-> out, error |-> "KeyError"]
                  ELSE GenFrom(a, cfg, IncIndex(index, type), i, 1, out)
             ELSE IF j > Len(entity.mentions)
             THEN GenFrom(a, cfg, index, i + 1, 0, out)
             ELSE LET f == Label(cfg[type], index[type])
                  IN  IF f.raised
                      THEN [adm |-> a, yielded |-> out,
                            error |-> "IndexError"]
                      ELSE GenFrom(SetMask(a, i, j, f.value), cfg, index,
                                   i, j + 1, Append(out, <<i, j>>))

masked_mentions(a, cfg) == GenFrom(a, cfg, NewIndex, 1, 0, <<>>)

-----------------------------------------------------------------------------
(* mask(adm, masks) *)

\* sorted(..., key=extent): a stable sort, each mention placed behind the
\* mentions whose key is not greater than its own
RECURSIVE InsertByExtent(_, _, _)
InsertByExtent(a, sortedRefs, r) ==
    IF sortedRefs = <<>> THEN <<r>>
    ELSE IF TupleLess(extent(Deref(a, r)), extent(Deref(a, Head(sortedRefs))))
    THEN <<r>> \o sortedRefs
    ELSE <<Head(sortedRefs)>> \o InsertByExtent(a, Tail(sortedRefs), r)

RECURSIVE SortFrom(_, _, _, _)
SortFrom(a, refs, k, acc) ==
    IF k > Len(refs) THEN acc
    ELSE SortFrom(a, refs, k + 1, InsertByExtent(a, acc, refs[k]))

Unsorted(a, refs) == refs

sorted(a, refs) == SortFrom(a, refs, 1, <<>>)

\* any(masked): some mention dict is non-empty
any(a, refs) == \E k \in 1..Len(refs) : DOMAIN Deref(a, refs[k]) # {}

\* min(extent(m)) and max(extent(m))
MinExtent(m) == Min2(extent(m)[1], extent(m)[2])
MaxExtent(m) == Max2(extent(m)[1], extent(m)[2])

\* The text before the first mention
Before(a, subsequent) == SliceTo(a.data, MinExtent(subsequent))

\* The text between two consecutive mentions
Between(a, current, subsequent) ==
    Slice(a.data, MaxExtent(current), MinExtent(subsequent))

\* The text after the last mention
AfterStart(a, subsequent) == SliceFrom(a.data, MinExtent(subsequent))

After(a, subsequent) == SliceFrom(a.data, MaxExtent(subsequent))

\* for current, subsequent in ngrams(masked, n=2): data += ...
RECURSIVE StitchPairs(_, _, _, _)
StitchPairs(a, pairs, k, data) ==
    IF k > Len(pairs) THEN data
    ELSE LET current == Deref(a, pairs[k][1])
             subsequent == Deref(a, pairs[k][2])
         IN  StitchPairs(a, pairs, k + 1,
                 data \o current.mask \o Between(a, current, subsequent))

\* The whole call: what it leaves in the ADM, the sorted list, the value
\* returned and the exception raised.  After the loop `subsequent` is the
\* last mention of the list (the first one when the loop had no pair).
mask(a, cfg) ==
    LET gen == masked_mentions(a, cfg)
        b == gen.adm
    IN  IF gen.error # "none"
        THEN [adm |-> b, masked |-> <<>>, result |-> "", error |-> gen.error]
        ELSE LET sortedRefs == sorted(b, gen.yielded)
             IN  IF any(b, sortedRefs)
                 THEN LET first == Deref(b, sortedRefs[1])
                          subsequent == Deref(b, sortedRefs[Len(sortedRefs)])
                          data == StitchPairs(b, ngrams(sortedRefs, 2), 1,
                                              "" \o Before(b, first))
                      IN  [adm |-> b, masked |-> sortedRefs,
                           result |-> data \o subsequent.mask
                                           \o After(b, subsequent),
                           error |-> "none"]
                 ELSE [adm |-> b, masked |-> sortedRefs,
                       result |-> b.data, error |-> "none"]

-----------------------------------------------------------------------------
(* Inputs *)

\* The documents: their characters are pairwise distinct lower-case letters,
\* so that a character of the output names the source position it came from
\* and can never be mistaken for a character of a mask label.
Doc(n) == SubSeq(Alphabet, 1, n)

\* A mention as the extraction service returns it (see the docstring of
\* entities): offsets and provenance, or provenance alone
Mention(s, e) ==
    [startOffset |-> s, endOffset |-> e, source |-> "statistical"]
NoOffsets == [source |-> "statistical"]

\* Every mention over a document of n characters
Mentions(n) ==
    {Mention(se[1], se[2]) :
        se \in {x \in (0..n) \X (0..n) : x[1] <= x[2]}}
    \cup {NoOffsets}

ADM(data, items) ==
    [data |-> data, attributes |-> [entities |-> [items |-> items]]]

\* The configurations a caller passes: the empty one, numbered templates,
\* a template without placeholder, a template with two placeholders, and a
\* type of the caller's own.
Configs ==
    { <<>>,
      ("PERSON" :> "PERSON{}"),
      ("PERSON" :> "PERSON{}") @@ ("LOCATION" :> "LOCATION{}"),
      ("PERSON" :> "PERSON{}") @@ ("LOCATION" :> "PLACE"),
      ("PERSON" :> "PERSON{}") @@ ("LOCATION" :> "LOCATION{}-{}"),
      ("PERSON" :> "PERSON{}") @@ ("FOO" :> "FOO{}") }

\* Numbering inputs are laid out from the entities' types and mention
\* counts: the mentions are one character wide and lie in the text in
\* extraction order, or in the reverse order.
RECURSIVE CountBefore(_, _)
CountBefore(counts, i) ==
    IF i <= 1 THEN 0 ELSE CountBefore(counts, i - 1) + counts[i - 1]

Total(counts) == CountBefore(counts, Len(counts) + 1)

LaidOut(types, counts, reverse) ==
    [i \in 1..Len(types) |->
        [type |-> types[i],
         mentions |->
            [j \in 1..counts[i] |->
                LET p == CountBefore(counts, i) + j - 1
                    q == IF reverse THEN Total(counts) - 1 - p ELSE p
                IN  Mention(q, q + 1)]]]

-----------------------------------------------------------------------------
(* The state machine: a caller holding one ADM calls mask on it, with any   *)
(* configuration, any number of times.  The call runs to its return or to   *)
(* the exception it raises; nothing else runs meanwhile (the program is     *)
(* single-threaded and sorted() consumes the generator at once).            *)

InitWith(a) ==
    /\ adm = a
    /\ adm0 = a
    /\ masks = <<>>
    /\ op = "none"
    /\ pc = "start"
    /\ error = "none"
    /\ masked = <<>>
    /\ result = ""

\* Numbering inputs: every list of at most MaxEntities entities of three
\* types (one of them outside MASKS) with 0..MaxMentions mentions each.
Init ==
    \E k \in 0..MaxEntities :
        \E types \in [1..k -> {"PERSON", "LOCATION", "FOO"}],
           counts \in [1..k -> 0..MaxMentions],
           reverse \in BOOLEAN :
            InitWith(ADM(Doc(Total(counts)), LaidOut(types, counts, reverse)))

\* Stitching inputs: every list of at most MaxEntities single-mention
\* entities of two types, with every span (and no span) over every document
\* of at most MaxDocLen characters.
InitStitch ==
    \E n \in 0..MaxDocLen, k \in 0..MaxEntities :
        \E types \in [1..k -> {"PERSON", "LOCATION"}],
           mentions \in [1..k -> Mentions(n)] :
            InitWith(ADM(Doc(n),
                [i \in 1..k |->
                    [type |-> types[i], mentions |-> <<mentions[i]>>]]))

\* mask(adm, c)
Mask(c) ==
    \E r \in {mask(adm, c)} :
        /\ op' = "mask"
        /\ masks' = c
        /\ adm' = r.adm
        /\ masked' = r.masked
        /\ result' = r.result
        /\ error' = r.error
        /\ pc' = IF r.error = "none" THEN "returned" ELSE "raised"
        /\ UNCHANGED adm0

\* The first call on an ADM fresh from the extraction service
MaskFresh(c) ==
    /\ pc = "start"
    /\ Mask(c)

Next == \E c \in Configs : Mask(c)

NextFresh == \E c \in Configs : MaskFresh(c)

\* Any sequence of calls on the numbering inputs
Spec == Init /\ [][Next]_vars

\* One call on each of the stitching inputs
SpecStitch == InitStitch /\ [][NextFresh]_vars

-----------------------------------------------------------------------------
(* Vocabulary of the properties *)

\* The references of all mentions of an ADM, and of those the configuration
\* cfg masks (the mentions of the entities whose type is a key of cfg)
Refs(a) ==
    {r \in (1..Len(Items(a))) \X (1..MaxMentions) :
        r[2] <= Len(Items(a)[r[1]].mentions)}

MaskedRefs(a, cfg) == {r \in Refs(a) : Items(a)[r[1]].type \in DOMAIN cfg}

\* r1 comes before r2 in extraction order
Earlier(r1, r2) == r1[1] < r2[1] \/ (r1[1] = r2[1] /\ r1[2] < r2[2])

HasOffsets(m) == {"startOffset", "endOffset"} \subseteq DOMAIN m

\* 0 <= start <= end <= len(document)
ValidSpan(m, doc) ==
    /\ HasOffsets(m)
    /\ 0 <= m.startOffset
    /\ m.startOffset <= m.endOffset
    /\ m.endOffset <= Len(doc)

\* Two spans none of which reaches into the other
Apart(m1, m2) ==
    m1.endOffset <= m2.startOffset \/ m2.endOffset <= m1.startOffset

\* The number of "{}" fields of a template
Fields(template) ==
    Cardinality({p \in 1..(Len(template) - 1) :
                    SubSeq(template, p, p + 1) = "{}"})

\* No template asks for more than the one value format is given
WellFormed(cfg) == \A t \in DOMAIN cfg : Fields(cfg[t]) <= 1

\* refs lists exactly the mentions in S, each once
Lists(refs, S) ==
    /\ Len(refs) = Cardinality(S)
    /\ {refs[k] : k \in 1..Len(refs)} = S

\* refs is in ascending (start, end) order
Ascending(a, refs) ==
    \A k \in 1..Len(refs), l \in 1..Len(refs) :
        k < l =>
            LET x == Deref(a, refs[k])
                y == Deref(a, refs[l])
            IN  \/ x.startOffset < y.startOffset
                \/ /\ x.startOffset = y.startOffset
                   /\ x.endOffset <= y.endOffset

\* doc[pos:s1] + m1 + doc[e1:s2] + m2 + ... + mk + doc[ek:len], from the
\* k-th mention of refs on, with TLA+'s own SubSeq (positions from 1)
RECURSIVE Stitched(_, _, _, _, _)
Stitched(doc, a, refs, k, pos) ==
    IF k > Len(refs) THEN SubSeq(doc, pos + 1, Len(doc))
    ELSE LET m == Deref(a, refs[k])
         IN  SubSeq(doc, pos + 1, m.startOffset) \o m.mask
                 \o Stitched(doc, a, refs, k + 1, m.endOffset)

-----------------------------------------------------------------------------
(* C1 *)

\* The masked mentions of the input have valid, pairwise disjoint spans
C1_Disjoint ==
    /\ \A r \in MaskedRefs(adm0, masks) : ValidSpan(Deref(adm0, r), adm0.data)
    /\ \A r1 \in MaskedRefs(adm0, masks), r2 \in MaskedRefs(adm0, masks) :
            r1 # r2 => Apart(Deref(adm0, r1), Deref(adm0, r2))

\* C1: when the masked mentions (those of the configured types) have valid
\* and pairwise non-overlapping spans, mask returns
\* doc[0:s1] + m1 + doc[e1:s2] + ... + mk + doc[ek:len], the spans taken in
\* ascending order; with no masked mention it returns the document, and
\* the text of the mentions of other types stays in place.  (The call
\* returns whenever no template of the configuration has two fields.)
C1_DisjointStitch ==
    (op = "mask" /\ C1_Disjoint) =>
        /\ WellFormed(masks) => pc = "returned"
        /\ pc = "returned" =>
            /\ Lists(masked, MaskedRefs(adm0, masks))
            /\ Ascending(adm, masked)
            /\ \A k \in 1..Len(masked) : "mask" \in DOMAIN Deref(adm, masked[k])
            /\ result = Stitched(adm0.data, adm, masked, 1, 0)
            /\ MaskedRefs(adm0, masks) = {} => result = adm0.data

\* Two disjoint, non-empty masked mentions, the later in the text extracted
\* first, with text between them
C1_Witness ==
    /\ op = "mask" /\ pc = "returned" /\ C1_Disjoint
    /\ Len(masked) = 2 /\ masked[1] = <<2, 1>> /\ masked[2] = <<1, 1>>
    /\ Deref(adm, <<2, 1>>).startOffset < Deref(adm, <<2, 1>>).endOffset
    /\ Deref(adm, <<2, 1>>).endOffset < Deref(adm, <<1, 1>>).startOffset
    /\ Deref(adm, <<1, 1>>).startOffset < Deref(adm, <<1, 1>>).endOffset
    /\ result # adm0.data

-----------------------------------------------------------------------------
(* C3 *)

\* The characters of a string
Chars(str) == {SubSeq(str, p, p) : p \in 1..Len(str)}

\* The source positions (from 0) inside the span of some masked mention
Covered(a, cfg) ==
    {p \in 0..(Len(a.data) - 1) :
        \E r \in MaskedRefs(a, cfg) :
            /\ Deref(a, r).startOffset <= p
            /\ p < Deref(a, r).endOffset}

C3_Valid ==
    \A r \in MaskedRefs(adm0, masks) : ValidSpan(Deref(adm0, r), adm0.data)

\* C3: for any masked mentions with valid offsets, overlapping and nested
\* ones included, the string mask returns holds no source character of a
\* position inside the span of a masked mention.  (The documents' letters
\* are distinct and lower-case, the labels upper-case: a letter of the
\* result is the source character of one position.)
C3_Coverage ==
    (op = "mask" /\ pc = "returned" /\ C3_Valid) =>
        \A p \in Covered(adm0, masks) :
            SubSeq(adm0.data, p + 1, p + 1) \notin Chars(result)

-----------------------------------------------------------------------------
(* C4 *)

\* C4: when the only masked mention carries no offsets, mask returns the
\* mask label followed by the entire document.
C4_SentinelOnly ==
    (/\ op = "mask"
     /\ WellFormed(masks)
     /\ Cardinality(MaskedRefs(adm0, masks)) = 1
     /\ \A r \in MaskedRefs(adm0, masks) : ~HasOffsets(Deref(adm0, r))) =>
        /\ pc = "returned"
        /\ \A r \in MaskedRefs(adm0, masks) :
                result = Deref(adm, r).mask \o adm0.data

-----------------------------------------------------------------------------
(* C8 *)

\* The text between the k-th mention of refs and the next one (or the end
\* of the document): nothing when the next one starts before the k-th ends
Gap(doc, a, refs, k) ==
    LET m == Deref(a, refs[k])
    IN  IF k = Len(refs) THEN SubSeq(doc, m.endOffset + 1, Len(doc))
        ELSE IF Deref(a, refs[k + 1]).startOffset < m.endOffset THEN ""
        ELSE SubSeq(doc, m.endOffset + 1, Deref(a, refs[k + 1]).startOffset)

RECURSIVE Collapsed(_, _, _, _)
Collapsed(doc, a, refs, k) ==
    IF k > Len(refs) THEN ""
    ELSE Deref(a, refs[k]).mask \o Gap(doc, a, refs, k)
             \o Collapsed(doc, a, refs, k + 1)

\* The k-th and the next mention of the sorted list have valid offsets and
\* the next one starts before the k-th ends
Overlapping(k) ==
    /\ ValidSpan(Deref(adm, masked[k]), adm0.data)
    /\ ValidSpan(Deref(adm, masked[k + 1]), adm0.data)
    /\ Deref(adm, masked[k + 1]).startOffset < Deref(adm, masked[k]).endOffset

\* sub stands somewhere in str
Contains(str, sub) ==
    \E p \in 1..(Len(str) - Len(sub) + 1) :
        SubSeq(str, p, p + Len(sub) - 1) = sub

\* C8: mask raises no error on overlapping mentions (identical spans
\* included) and puts the empty string between the labels of a consecutive
\* pair (current, next) of the sorted list that has valid non-negative
\* offsets and next.start < current.end: the two labels follow each other
\* at once, whatever the other mentions are, and when all offsets are valid
\* the result is doc[:s1] followed by each label and the text up to the
\* next mention, which is empty for such a pair: no source character and
\* no reversed text.
C8_EmptyGap ==
    op = "mask" =>
        /\ WellFormed(masks) => pc = "returned"
        /\ pc = "returned" =>
            \A k \in 1..(Len(masked) - 1) :
                Overlapping(k) =>
                    Contains(result, Deref(adm, masked[k]).mask
                                         \o Deref(adm, masked[k + 1]).mask)
        /\ (pc = "returned" /\ C3_Valid /\ masked # <<>>) =>
            /\ Ascending(adm, masked)
            /\ result =
                 SubSeq(adm0.data, 1, Deref(adm, masked[1]).startOffset)
                     \o Collapsed(adm0.data, adm, masked, 1)

\* Two masked mentions, the second starting inside the first
C8_Witness ==
    /\ op = "mask" /\ pc = "returned" /\ C3_Valid
    /\ Len(masked) = 2
    /\ Overlapping(1)
    /\ Deref(adm, masked[1]).startOffset < Deref(adm, masked[2]).startOffset
    /\ Deref(adm, masked[1]).endOffset < Deref(adm, masked[2]).endOffset

-----------------------------------------------------------------------------
(* Labels *)

\* The entities of an ADM, and the number of entities of the type of
\* entity i among the first i entities
Entities(a) == 1..Len(Items(a))
TypeOf(a, i) == Items(a)[i].type
Rank(a, i) == Cardinality({k \in 1..i : TypeOf(a, k) = TypeOf(a, i)})

\* The number of mentions of the type of r's entity up to r
MentionRank(a, r) ==
    Cardinality({q \in Refs(a) :
        /\ TypeOf(a, q[1]) = TypeOf(a, r[1])
        /\ (q = r \/ Earlier(q, r))})

\* A template with one field, at its end, and its label of index n
Numbering(template) ==
    /\ Fields(template) = 1
    /\ SubSeq(template, Len(template) - 1, Len(template)) = "{}"
Numbered(template, n) ==
    SubSeq(template, 1, Len(template) - 2) \o ToString(n)

\* The mentions of the configured types whose template numbers them
NumberedRefs(a, cfg) ==
    {r \in MaskedRefs(a, cfg) : Numbering(cfg[TypeOf(a, r[1])])}

-----------------------------------------------------------------------------
(* C2 *)

\* C2 as claimed: the counter is incremented before each mention is
\* formatted, so that the mentions of a numbered type receive 1, 2, 3, ...
\* in extraction order and no two of them the same index.
C2_PerMention ==
    (op = "mask" /\ pc = "returned") =>
        \A r \in NumberedRefs(adm, masks) :
            Deref(adm, r).mask =
                Numbered(masks[TypeOf(adm, r[1])], MentionRank(adm, r))

\* C2 as amended: the counter of a numbered type starts at 0 and is
\* incremented once per entity of the type, before the entity's mentions
\* are formatted: the entities of the type receive 1, 2, 3, ... in
\* extraction order, whatever the entities of other types between them,
\* and every mention receives the index of its entity.
C2_PerEntity ==
    (op = "mask" /\ pc = "returned") =>
        \A r \in NumberedRefs(adm, masks) :
            Deref(adm, r).mask =
                Numbered(masks[TypeOf(adm, r[1])], Rank(adm, r[1]))

\* A returned run over two entities of one numbered type, the first with
\* two mentions, the second with one
C2_Witness ==
    /\ op = "mask" /\ pc = "returned"
    /\ Len(Items(adm)) = 2
    /\ TypeOf(adm, 1) = TypeOf(adm, 2)
    /\ Len(Items(adm)[1].mentions) = 2
    /\ {<<1, 1>>, <<1, 2>>, <<2, 1>>} \subseteq NumberedRefs(adm, masks)

-----------------------------------------------------------------------------
(* C9 *)

\* C9: whatever string a type of the configuration is, an entity of that
\* type is labelled and never makes the run fail: with templates of at most
\* one field the run returns and every mention of a configured type holds
\* its label.
C9_AnyConfiguredType ==
    (op = "mask" /\ WellFormed(masks)) =>
        /\ pc = "returned"
        /\ \A r \in MaskedRefs(adm, masks) : "mask" \in DOMAIN Deref(adm, r)

-----------------------------------------------------------------------------
(* C5 *)

\* Entity i is of a configured type whose template asks for more values
\* than the one it is given, and has a mention to format
Mismatched(a, cfg, i) ==
    /\ TypeOf(a, i) \in DOMAIN cfg
    /\ Fields(cfg[TypeOf(a, i)]) > 1
    /\ Items(a)[i].mentions # <<>>

\* Entity i is of a configured type that has no counter
Uncounted(a, cfg, i) ==
    TypeOf(a, i) \in DOMAIN cfg /\ TypeOf(a, i) \notin DOMAIN MASKS

\* C5 as claimed: the run fails before any mention is processed, so that at
\* the moment of the failure no mention has been given a mask label.
C5_FailsFirst ==
    [][(op' = "mask" /\ error' = "IndexError") => adm' = adm]_vars

\* C5 as amended: the run fails with that error when, and only when, the
\* generator reaches the first mention of an entity of the mismatched type
\* (no run that reaches none fails so).  At the failure no output has been
\* built, every mention of the configured entities before that entity has
\* been labelled, and that entity and the later ones are untouched.
C5_FailsAtFirstUse ==
    [][op' = "mask" =>
        /\ (pc' = "returned" =>
                \A i \in Entities(adm) : ~Mismatched(adm, masks', i))
        /\ (error' = "IndexError" =>
                \E i \in Entities(adm) :
                    /\ Mismatched(adm, masks', i)
                    /\ \A k \in 1..(i - 1) :
                        /\ ~Mismatched(adm, masks', k)
                        /\ ~Uncounted(adm, masks', k)
                    /\ \A r \in MaskedRefs(adm, masks') :
                        r[1] < i => "mask" \in DOMAIN Deref(adm', r)
                    /\ \A k \in i..Len(Items(adm)) :
                        Items(adm')[k] = Items(adm)[k]
                    /\ result' = ""
                    /\ masked' = <<>>)
        /\ ((\E i \in Entities(adm) :
                /\ Mismatched(adm, masks', i)
                /\ \A k \in 1..(i - 1) : ~Uncounted(adm, masks', k)) =>
                error' = "IndexError")]_vars

\* A failed run that has labelled the mention of its first entity and not
\* the mention of its second
C5_Witness ==
    /\ op = "mask" /\ error = "IndexError"
    /\ Len(Items(adm)) = 2
    /\ ~Mismatched(adm, masks, 1) /\ Mismatched(adm, masks, 2)
    /\ <<1, 1>> \in MaskedRefs(adm, masks)
    /\ "mask" \in DOMAIN Deref(adm, <<1, 1>>)
    /\ "mask" \notin DOMAIN Deref(adm, <<2, 1>>)

-----------------------------------------------------------------------------
(* C6 *)

\* C6 as claimed: once mask has returned, the document and every mention
\* record of the input are as they were before the call.
C6_NoEffect == [][(op' = "mask" /\ pc' = "returned") => adm' = adm]_vars

\* What a call may do to a mention m of an entity of type t, leaving n
Framed(m, n, t, cfg) ==
    /\ DOMAIN n \subseteq DOMAIN m \cup {"mask"}
    /\ \A f \in DOMAIN m \ {"mask"} : f \in DOMAIN n /\ n[f] = m[f]
    /\ t \notin DOMAIN cfg => n = m

\* C6 as amended: a call leaves the document text, the entities, and every
\* mention's offsets and provenance as they were, and the mentions of the
\* types that are not configured wholly so; its one effect on its input is
\* the "mask" field it sets on the mentions of the configured types: all of
\* them hold one when the call has returned.
C6_Frame ==
    [][op' = "mask" =>
        /\ adm'.data = adm.data
        /\ Len(Items(adm')) = Len(Items(adm))
        /\ \A i \in Entities(adm) :
            /\ TypeOf(adm', i) = TypeOf(adm, i)
            /\ Len(Items(adm')[i].mentions) = Len(Items(adm)[i].mentions)
        /\ \A r \in Refs(adm) :
            /\ Framed(Deref(adm, r), Deref(adm', r), TypeOf(adm, r[1]), masks')
            /\ (pc' = "returned" /\ r \in MaskedRefs(adm, masks')) =>
                    "mask" \in DOMAIN Deref(adm', r)]_vars

\* A returned run that has set a "mask" field on a mention of the input,
\* and left one mention as it was
C6_Witness ==
    /\ op = "mask" /\ pc = "returned"
    /\ \E r \in Refs(adm) :
        /\ "mask" \in DOMAIN Deref(adm, r)
        /\ "mask" \notin DOMAIN Deref(adm0, r)
        /\ Deref(adm, r).startOffset = Deref(adm0, r).startOffset
    /\ \E r \in Refs(adm) : Deref(adm, r) = Deref(adm0, r)

-----------------------------------------------------------------------------
(* C7 *)

\* C7: after any sequence of earlier runs on the ADM, a run with a
\* configuration ends as a first run with it on a fresh copy of the ADM
\* ends: the same string returned or the same exception raised, the same
\* mentions masked in the same order, the same labels assigned.
C7_NoCarryOver ==
    op = "mask" =>
        /\ result = mask(adm0, masks).result
        /\ error = mask(adm0, masks).error
        /\ masked = mask(adm0, masks).masked
        /\ \A r \in Refs(adm0) :
            "mask" \in DOMAIN Deref(mask(adm0, masks).adm, r) =>
                Deref(adm, r) = Deref(mask(adm0, masks).adm, r)

\* A returned run that has masked a mention, on an ADM in which an earlier
\* run with another configuration has left the label of a type that this
\* run does not mask
C7_Witness ==
    /\ op = "mask" /\ pc = "returned"
    /\ masked # <<>>
    /\ \E r \in Refs(adm) \ MaskedRefs(adm, masks) :
            "mask" \in DOMAIN Deref(adm, r)

-----------------------------------------------------------------------------
(* C10 *)

\* The label of position q (from 0) of a numbering input: the label of the
\* mention that lies there when its type is configured, else the character
Substituted(a, cfg, q) ==
    LET r == CHOOSE x \in Refs(a) : Deref(a, x).startOffset = q
    IN  IF r \in MaskedRefs(a, cfg) THEN Deref(a, r).mask
        ELSE SubSeq(a.data, q + 1, q + 1)

RECURSIVE InTextOrder(_, _, _)
InTextOrder(a, cfg, q) ==
    IF q >= Len(a.data) THEN ""
    ELSE Substituted(a, cfg, q) \o InTextOrder(a, cfg, q + 1)

\* C10: numbering is per entity, in extraction order.  The j-th entity of
\* a configured type gets index j and all its mentions the same label; two
\* mentions of a numbered type have the same label exactly when they belong
\* to one entity; the indices are the same whichever way the mentions lie
\* in the text, and the labels stand in the result in text order.
C10_PerEntityInOrder ==
    (op = "mask" /\ pc = "returned") =>
        /\ \A r \in MaskedRefs(adm, masks) :
            Deref(adm, r).mask =
                Label(masks[TypeOf(adm, r[1])], Rank(adm, r[1])).value
        /\ \A r1 \in NumberedRefs(adm, masks), r2 \in NumberedRefs(adm, masks) :
            TypeOf(adm, r1[1]) = TypeOf(adm, r2[1]) =>
                (Deref(adm, r1).mask = Deref(adm, r2).mask <=> r1[1] = r2[1])
        /\ Lists(masked, MaskedRefs(adm, masks))
        /\ Ascending(adm, masked)
        /\ result = InTextOrder(adm, masks, 0)

\* A returned run over mentions that lie in the text in the reverse of the
\* extraction order: two entities of one numbered type, the first with two
\* mentions, and the labels in the result with the last index first
C10_Witness ==
    /\ op = "mask" /\ pc = "returned"
    /\ Len(Items(adm)) = 2
    /\ TypeOf(adm, 1) = TypeOf(adm, 2)
    /\ masked = << <<2, 1>>, <<1, 2>>, <<1, 1>> >>
    /\ masked \in [1..3 -> NumberedRefs(adm, masks)]
    /\ Deref(adm, <<2, 1>>).mask # Deref(adm, <<1, 1>>).mask

====
